---- MODULE Spec2Model ----
(***************************************************************************)
(* A model of the iPinYou data preparation pipeline:                       *)
(*   - python/mkyzx.py : the feature vocabulary builder and sparse encoder *)
(*   - python/mkdata.py: the click join over the impression log            *)
(*   - duckdb_pipeline.py: the same join expressed in SQL over rounds      *)
(* Strings are TLA+ strings; Python's string methods are modelled on their *)
(* characters.  Column indices are 0-based as in the source.               *)
(***************************************************************************)
EXTENDS Integers, Sequences, FiniteSets, TLC

(***************************************************************************)
(* Python string primitives                                                *)
(***************************************************************************)
Ch(s, i) == SubSeq(s, i, i)

IsSpace(c) == c \in {" ", "\t", "\n", "\r"}

RECURSIVE RStripNL(_)
\* str.rstrip("\n")
RStripNL(s) ==
    IF Len(s) > 0 /\ Ch(s, Len(s)) = "\n"
    THEN RStripNL(SubSeq(s, 1, Len(s) - 1))
    ELSE s

RECURSIVE LStrip(_)
LStrip(s) == IF Len(s) > 0 /\ IsSpace(Ch(s, 1)) THEN LStrip(Tail(s)) ELSE s

RECURSIVE RStrip(_)
RStrip(s) ==
    IF Len(s) > 0 /\ IsSpace(Ch(s, Len(s)))
    THEN RStrip(SubSeq(s, 1, Len(s) - 1))
    ELSE s

\* str.strip()
Strip(s) == RStrip(LStrip(s))

RECURSIVE FindFrom(_, _, _)
\* the first position at or after i where s has the character c, else 0
FindFrom(s, c, i) ==
    IF i > Len(s) THEN 0
    ELSE IF Ch(s, i) = c THEN i
    ELSE FindFrom(s, c, i + 1)

RECURSIVE SplitFrom(_, _, _)
SplitFrom(s, sep, from) ==
    LET i == FindFrom(s, sep, from)
    IN  IF i = 0
        THEN <<SubSeq(s, from, Len(s))>>
        ELSE <<SubSeq(s, from, i - 1)>> \o SplitFrom(s, sep, i + 1)

\* str.split(sep) for a one-character separator: the parts between the
\* occurrences of sep, always at least one part
Split(s, sep) == SplitFrom(s, sep, 1)

RECURSIVE Join(_, _)
\* sep.join(parts)
Join(parts, sep) ==
    IF Len(parts) = 0 THEN ""
    ELSE IF Len(parts) = 1 THEN parts[1]
    ELSE parts[1] \o sep \o Join(Tail(parts), sep)

UpperLetters == "ABCDEFGHIJKLMNOPQRSTUVWXYZ"
LowerLetters == "abcdefghijklmnopqrstuvwxyz"

LowerCh(c) ==
    IF \E i \in 1..Len(UpperLetters) : Ch(UpperLetters, i) = c
    THEN Ch(LowerLetters, CHOOSE i \in 1..Len(UpperLetters) : Ch(UpperLetters, i) = c)
    ELSE c

RECURSIVE Lower(_)
\* str.lower()
Lower(s) == IF s = "" THEN "" ELSE LowerCh(Head(s)) \o Lower(Tail(s))

\* sub in s
Contains(sub, s) ==
    \E i \in 0..(Len(s) - Len(sub)) : SubSeq(s, i + 1, i + Len(sub)) = sub

Digits == "0123456789"
IsDigit(c) == \E i \in 1..Len(Digits) : Ch(Digits, i) = c
DigitVal(c) == (CHOOSE i \in 1..Len(Digits) : Ch(Digits, i) = c) - 1

RECURSIVE DigitsVal(_, _)
\* the value of a digit run.  Python's integers are unbounded; here a value
\* that has passed 999999 stays where it is, far above every number the
\* source compares a parsed value with.
DigitsVal(s, acc) ==
    IF s = "" THEN acc
    ELSE IF Head(s) = "_" \/ acc > 999999 THEN DigitsVal(Tail(s), acc)
    ELSE DigitsVal(Tail(s), acc * 10 + DigitVal(Head(s)))

\* the digit part of an int() literal: digits, single underscores between them
IsDigitRun(s) ==
    /\ Len(s) > 0
    /\ IsDigit(Ch(s, 1))
    /\ IsDigit(Ch(s, Len(s)))
    /\ \A i \in 1..Len(s) : IsDigit(Ch(s, i)) \/ Ch(s, i) = "_"
    /\ \A i \in 1..(Len(s) - 1) : ~(Ch(s, i) = "_" /\ Ch(s, i + 1) = "_")

\* int(s): surrounding whitespace, an optional sign, then the digits.
\* ok = FALSE stands for ValueError.
ParseInt(s) ==
    LET t == Strip(s)
        signed == Len(t) > 0 /\ Ch(t, 1) \in {"+", "-"}
        body == IF signed THEN Tail(t) ELSE t
    IN  IF IsDigitRun(body)
        THEN [ok |-> TRUE,
              val |-> IF signed /\ Ch(t, 1) = "-"
                      THEN 0 - DigitsVal(body, 0)
                      ELSE DigitsVal(body, 0)]
        ELSE [ok |-> FALSE, val |-> 0]

\* a Python list, 0-based
At(s, i) == s[i + 1]

\* dict assignment d[k] = v
Put(d, k, v) == [x \in (DOMAIN d) \cup {k} |-> IF x = k THEN v ELSE d[x]]

EmptyDict == [x \in {} |-> 0]

(***************************************************************************)
(* python/mkyzx.py: constants and pure functions                           *)
(***************************************************************************)
OSES == <<"windows", "ios", "mac", "android", "linux">>
BROWSERS == <<"chrome", "sogou", "maxthon", "safari", "firefox", "theworld", "opera", "ie">>

F1S == <<"weekday", "hour", "IP", "region", "city", "adexchange", "domain",
         "slotid", "slotwidth", "slotheight", "slotvisibility", "slotformat",
         "creative", "advertiser">>

F1SP == <<"useragent", "slotprice">>

\* index_file: a row needs this many fields to be encoded
MinFields == 24
\* index_file: the 0-based position of the weight (winning price)
WeightCol == 23

RECURSIVE FirstMatch(_, _, _)
\* for o in names: if o in content: return o; else the default
FirstMatch(names, content, default) ==
    IF Len(names) = 0 THEN default
    ELSE IF Contains(Head(names), content) THEN Head(names)
    ELSE FirstMatch(Tail(names), content, default)

\* SlotPriceBucket with each boundary counted into the bucket above it
SlotPriceBucketAbove(text) ==
    LET p == ParseInt(text)
    IN  IF ~p.ok THEN "0"
        ELSE IF p.val >= 100 THEN "101+"
        ELSE IF p.val >= 50 THEN "51-100"
        ELSE IF p.val >= 10 THEN "11-50"
        ELSE IF p.val > 0 THEN "1-10"
        ELSE "0"

SlotPriceBucket(text) ==
    LET p == ParseInt(text)
    IN  IF ~p.ok THEN "0"
        ELSE IF p.val > 100 THEN "101+"
        ELSE IF p.val > 50 THEN "51-100"
        ELSE IF p.val > 10 THEN "11-50"
        ELSE IF p.val > 0 THEN "1-10"
        ELSE "0"

feat_trans(name, content0) ==
    LET content == Lower(content0)
    IN  IF name = "useragent"
        THEN FirstMatch(OSES, content, "other") \o "_" \o FirstMatch(BROWSERS, content, "other")
        ELSE IF name = "slotprice" THEN SlotPriceBucket(content)
        ELSE content

get_tags(content) ==
    IF content = "\n" \/ Len(content) = 0
    THEN <<"null">>
    ELSE Split(Strip(content), ",")

\* str(col) + ":" + content
FeatKey(col, content) == ToString(col) \o ":" \o content

OtherKey(col) == ToString(col) \o ":other"

\* s = line.rstrip("\n").split("\t")
Fields(line) == Split(RStripNL(line), "\t")

(***************************************************************************)
(* Input files of mkyzx: a file is the sequence of its lines, each with    *)
(* its line end.  The first line of a log is its header.                   *)
(***************************************************************************)
MaxTrainRows == 2
MaxTestRows == 2

\* the header mkdata writes: click, weekday, hour, then the schema
StdHeader ==
    <<"click", "weekday", "hour", "bidid", "timestamp", "logtype", "ipinyouid",
      "useragent", "IP", "region", "city", "adexchange", "domain", "url", "urlid",
      "slotid", "slotwidth", "slotheight", "slotvisibility", "slotformat",
      "slotprice", "creative", "bidprice", "payprice", "keypage", "advertiser",
      "usertag">>

\* the same columns with weekday placed first
Cat0Header == <<"weekday", "click">> \o SubSeq(StdHeader, 3, Len(StdHeader))

\* few columns, padded names, a repeated name
PaddedHeader == <<"click", " weekday", "weekday ", "useragent", "slotprice", "usertag">>

HeaderLine(cols) == Join(cols, "\t") \o "\n"

HeaderPool ==
    {HeaderLine(StdHeader), HeaderLine(Cat0Header), HeaderLine(PaddedHeader), " \t\n"}

MkRow(click, weekday, ua, price, pay, adv, tags) ==
    <<click, weekday, "00", "b1", "20130601000000", "1", "u1", ua, "1.2.3.*",
      "1", "2", "1", "dom", "url", "null", "s1", "300", "250", "0", "1", price,
      "c1", "300", pay, "kp", adv, tags>>

RowLine(fields, n) == Join(SubSeq(fields, 1, n), "\t") \o "\n"

\* rows of 27, 27, 24 and 23 fields
RowA == RowLine(MkRow("1", "1", "Mozilla Windows Chrome", "5", "50", "1458", "10,20"), 27)
RowB == RowLine(MkRow("0", "2", "iPhone iOS Safari", "150", "77", "3386", ""), 27)
RowC == RowLine(MkRow("0", "other", "curl", "abc", "12", "1458", "20,30"), 24)
RowD == RowLine(MkRow("1", "3", "Opera Linux", "75", "9", "3386", "10"), 23)

TrainRowPool == {RowA, RowB, RowC, RowD}
TestRowPool == {RowB, RowC, RowD}

RECURSIVE SeqsUpTo(_, _)
\* the sequences over S of length at most n
SeqsUpTo(S, n) ==
    IF n = 0 THEN {<<>>}
    ELSE LET shorter == SeqsUpTo(S, n - 1)
         IN  shorter \cup {Append(q, x) : q \in {r \in shorter : Len(r) = n - 1}, x \in S}

TrainFiles ==
    {<<>>} \cup {<<h>> \o rows : h \in HeaderPool, rows \in SeqsUpTo(TrainRowPool, MaxTrainRows)}

TestFiles == {<<HeaderLine(StdHeader)>> \o rows : rows \in SeqsUpTo(TestRowPool, MaxTestRows)}

\* what a path holds at which no file exists (every line of a file ends
\* with a line end, so no file has this value)
NoFile == <<"<no file>">>
\* the same for a file of encoded lines and for the file of index lines
NoOutput == <<[label |-> "<no file>", weight |-> "", pairs |-> <<>>]>>
NoIndex == <<[key |-> "<no file>", id |-> 0 - 1]>>

(***************************************************************************)
(* State                                                                   *)
(***************************************************************************)
VARIABLES
    trainFile,   \* args.train_log: its lines
    testFile,    \* args.test_log: its lines, or NoFile
    pc,          \* where main is
    run,         \* which call of build_feature_index this is
    ln,          \* lines the current pass has taken from its input
    slot,        \* position in the current line: header cell, or feature of the row
    namecol,     \* column name -> position
    featindex,   \* feature key -> id
    maxindex,    \* next id
    prevIndex,   \* the FeatureIndex an earlier call returned
    indexOut,    \* args.featindex: its lines, or NoIndex
    trainOut,    \* args.train_lr: its lines, or NoOutput
    testOut      \* args.test_lr: its lines, or NoOutput

yzxVars == <<trainFile, testFile, pc, run, ln, slot, namecol, featindex, maxindex,
             prevIndex, indexOut, trainOut, testOut>>

\* python/mkdata.py
VARIABLES
    schemaText,  \* the schema file's text
    clickFiles,  \* args.clickfiles: the lines of each click file
    jpc,         \* where mkdata's main is
    schema,      \* the loaded schema
    cfile,       \* click files build_click_map has finished
    cline,       \* lines taken from the current click file
    bmap,        \* bid-creative key -> line count
    nread,       \* lines process_data has taken from stdin
    stdout       \* the lines written to stdout

joinVars == <<schemaText, clickFiles, jpc, schema, cfile, cline, bmap, nread, stdout>>

\* duckdb_pipeline.py
VARIABLES
    impLogs,     \* round -> the rows of its impression logs
    clkLogs,     \* round -> the rows of its click logs
    dpc,         \* where the pipeline's main is
    nrounds,     \* training rounds registered so far
    impTables,   \* round -> its <round>_impressions table
    clkTables,   \* round -> its <round>_clicks table
    train_impressions,
    train_clicks,
    train_processed,
    train_columns   \* the column names of train_processed, in order

duckVars == <<impLogs, clkLogs, dpc, nrounds, impTables, clkTables,
              train_impressions, train_clicks, train_processed, train_columns>>

\* python/splitadvertisers.py
VARIABLES
    splitInput,        \* input_path: its lines, or NoFile
    advertiser_index,
    spc,               \* where split_file_by_advertiser is
    sln,               \* lines taken from the input
    header,
    advertiser_files,  \* advertiser -> the lines written to its output file
    advertiser_dirs,   \* the directories created under output_folder
    open_handles       \* the advertisers whose output handle is open

splitVars == <<splitInput, advertiser_index, spc, sln, header, advertiser_files,
               advertiser_dirs, open_handles>>

\* duckdb_pipeline.py: ensure_uncompressed
VARIABLES
    files,         \* the paths given to ensure_uncompressed
    cache,         \* path of a file in cache_dir -> "partial" or "complete"
    force,
    worker_count,
    zpc,           \* where the caller of ensure_uncompressed is
    pending,       \* the (src, dest) pairs to decompress
    prepared,      \* the paths ensure_uncompressed returns
    task           \* per pair of pending: "queued", "running" or "done"

unzipVars == <<files, cache, force, worker_count, zpc, pending, prepared, task>>

\* one call of get_tags, feat_trans, normalize_cores, or of the worker count
\* expression of ensure_uncompressed or Decompressor.__init__
VARIABLES
    callContent,   \* the argument of get_tags and feat_trans
    requested,     \* the requested worker count: <<>> for None, <<n>> for n
    cpu_count,     \* what os.cpu_count() returns: <<>> for None, <<n>> for n
    fpc,           \* "call" before the call, "returned" after it
    called,        \* the function called; for feat_trans, its name argument
    callTags,      \* what get_tags returned
    callTransformed, \* what feat_trans returned
    cores          \* the worker count computed

callVars == <<callContent, requested, cpu_count, fpc, called, callTags, callTransformed, cores>>

\* make_ipinyou_data/utils/decompress.py: Decompressor._process_files
VARIABLES
    max_workers,   \* self.max_workers
    semaphore,     \* the value of the asyncio.Semaphore
    coros,         \* per pending pair, where decompress_with_limit is:
                   \* "created", "decompressing" or "done"
    apc            \* where _process_files is

asyncVars == <<max_workers, semaphore, coros, apc>>

vars == <<yzxVars, joinVars, duckVars, splitVars, unzipVars, callVars, asyncVars>>

nonYzxVars == <<joinVars, duckVars, splitVars, unzipVars, callVars, asyncVars>>
nonJoinVars == <<yzxVars, duckVars, splitVars, unzipVars, callVars, asyncVars>>
nonDuckVars == <<yzxVars, joinVars, splitVars, unzipVars, callVars, asyncVars>>
nonSplitVars == <<yzxVars, joinVars, duckVars, unzipVars, callVars, asyncVars>>
nonUnzipVars == <<yzxVars, joinVars, duckVars, splitVars, callVars, asyncVars>>
nonCallVars == <<yzxVars, joinVars, duckVars, splitVars, unzipVars, asyncVars>>
nonAsyncVars == <<yzxVars, joinVars, duckVars, splitVars, unzipVars, callVars>>

(***************************************************************************)
(* python/mkyzx.py: build_feature_index                                    *)
(***************************************************************************)
\* the order in which a row's features are visited: F1S, F1SP, usertag
Slots == F1S \o F1SP \o <<"usertag">>

IsF1S(k) == k <= Len(F1S)
IsF1SP(k) == k > Len(F1S) /\ k <= Len(F1S) + Len(F1SP)

\* Register with "maxindex += 2"
RegisterSkipping(st, feat) ==
    IF feat \in DOMAIN st.index
    THEN st
    ELSE [index |-> Put(st.index, feat, st.max), max |-> st.max + 2]

\* Register without "maxindex += 1"
RegisterNoAdvance(st, feat) ==
    IF feat \in DOMAIN st.index
    THEN st
    ELSE [index |-> Put(st.index, feat, st.max), max |-> st.max]

\* if feat not in featindex: featindex[feat] = maxindex; maxindex += 1
Register(st, feat) ==
    IF feat \in DOMAIN st.index
    THEN st
    ELSE [index |-> Put(st.index, feat, st.max), max |-> st.max + 1]

RECURSIVE RegisterAll(_, _)
RegisterAll(st, feats) ==
    IF Len(feats) = 0 THEN st
    ELSE RegisterAll(Register(st, Head(feats)), Tail(feats))

\* the feature keys the k-th feature of a row gives, in the order visited
BuildSlotKeys(k, s, nc) ==
    LET f == Slots[k]
    IN  IF f \notin DOMAIN nc THEN <<>>
        ELSE LET col == nc[f]
             IN  IF col >= Len(s) THEN <<>>
                 ELSE IF IsF1S(k) THEN <<FeatKey(col, At(s, col))>>
                 ELSE IF IsF1SP(k) THEN <<FeatKey(col, feat_trans(f, At(s, col)))>>
                 ELSE LET tags == get_tags(At(s, col))
                      IN  [i \in 1..Len(tags) |-> FeatKey(col, tags[i])]

\* not s or not any(col.strip() for col in s)
HeaderInvalid(s) == Len(s) = 0 \/ \A i \in 1..Len(s) : Strip(s[i]) = ""

\* the header cell at position i gets "i:other", except the cell at position 0
RegistersOther(i) == i > 0

BuildOpen ==
    /\ pc = "start"
    /\ namecol' = EmptyDict
    /\ featindex' = Put(EmptyDict, "truncate", 0)
    /\ maxindex' = 1
    /\ ln' = 0
    /\ slot' = 0
    /\ pc' = "read"
    /\ UNCHANGED <<trainFile, testFile, run, prevIndex, indexOut, trainOut, testOut>>
    /\ UNCHANGED nonYzxVars

BuildReadLine ==
    /\ pc = "read"
    /\ ln < Len(trainFile)
    /\ ln' = ln + 1
    /\ IF ln = 0
       THEN IF HeaderInvalid(Fields(trainFile[1]))
            THEN pc' = "failed" /\ slot' = 0
            ELSE pc' = "header" /\ slot' = 0
       ELSE pc' = "row" /\ slot' = 1
    /\ UNCHANGED <<trainFile, testFile, run, namecol, featindex, maxindex, prevIndex,
                   indexOut, trainOut, testOut>>
    /\ UNCHANGED nonYzxVars

BuildHeaderCell ==
    /\ pc = "header"
    /\ LET s == Fields(trainFile[ln])
           i == slot
       IN  /\ namecol' = Put(namecol, Strip(At(s, i)), i)
           /\ IF RegistersOther(i)
              THEN /\ featindex' = Put(featindex, OtherKey(i), maxindex)
                   /\ maxindex' = maxindex + 1
              ELSE UNCHANGED <<featindex, maxindex>>
           /\ IF i + 1 < Len(s)
              THEN slot' = i + 1 /\ pc' = "header"
              ELSE slot' = 0 /\ pc' = "read"
    /\ UNCHANGED <<trainFile, testFile, run, ln, prevIndex, indexOut, trainOut, testOut>>
    /\ UNCHANGED nonYzxVars

Reverse(q) == [i \in 1..Len(q) |-> q[Len(q) + 1 - i]]

\* BuildRowSlot visiting the keys of a feature in an order that is not fixed
\* (as an iteration over a set of tags would)
BuildRowSlotUnordered ==
    /\ pc = "row"
    /\ \E keys \in {BuildSlotKeys(slot, Fields(trainFile[ln]), namecol),
                    Reverse(BuildSlotKeys(slot, Fields(trainFile[ln]), namecol))} :
         LET st == RegisterAll([index |-> featindex, max |-> maxindex], keys)
         IN  /\ featindex' = st.index
             /\ maxindex' = st.max
    /\ IF slot < Len(Slots)
       THEN slot' = slot + 1 /\ pc' = "row"
       ELSE slot' = 0 /\ pc' = "read"
    /\ UNCHANGED <<trainFile, testFile, run, ln, namecol, prevIndex, indexOut,
                   trainOut, testOut>>
    /\ UNCHANGED nonYzxVars

BuildRowSlot ==
    /\ pc = "row"
    /\ LET s == Fields(trainFile[ln])
           st == RegisterAll([index |-> featindex, max |-> maxindex],
                             BuildSlotKeys(slot, s, namecol))
       IN  /\ featindex' = st.index
           /\ maxindex' = st.max
    /\ IF slot < Len(Slots)
       THEN slot' = slot + 1 /\ pc' = "row"
       ELSE slot' = 0 /\ pc' = "read"
    /\ UNCHANGED <<trainFile, testFile, run, ln, namecol, prevIndex, indexOut,
                   trainOut, testOut>>
    /\ UNCHANGED nonYzxVars

BuildReturn ==
    /\ pc = "read"
    /\ ln = Len(trainFile)
    /\ pc' = IF DOMAIN namecol = {} THEN "failed" ELSE "built"
    /\ UNCHANGED <<trainFile, testFile, run, ln, slot, namecol, featindex, maxindex,
                   prevIndex, indexOut, trainOut, testOut>>
    /\ UNCHANGED nonYzxVars

\* a second run of the Vocabulary Builder on the same training file
Rebuild ==
    /\ pc = "built"
    /\ run < 2
    /\ run' = run + 1
    /\ prevIndex' = featindex
    /\ pc' = "start"
    /\ UNCHANGED <<trainFile, testFile, ln, slot, namecol, featindex, maxindex,
                   indexOut, trainOut, testOut>>
    /\ UNCHANGED nonYzxVars

(***************************************************************************)
(* python/mkyzx.py: write_feature_index                                    *)
(***************************************************************************)
RECURSIVE SortedItems(_)
\* sorted(featindex.items(), key=operator.itemgetter(1))
SortedItems(fi) ==
    IF DOMAIN fi = {} THEN <<>>
    ELSE LET k == CHOOSE x \in DOMAIN fi : \A y \in DOMAIN fi : fi[x] <= fi[y]
         IN  <<[key |-> k, id |-> fi[k]]>>
             \o SortedItems([x \in (DOMAIN fi) \ {k} |-> fi[x]])

WriteIndex ==
    /\ pc = "built"
    /\ indexOut' = SortedItems(featindex)
    /\ pc' = "open_train"
    /\ UNCHANGED <<trainFile, testFile, run, ln, slot, namecol, featindex, maxindex,
                   prevIndex, trainOut, testOut>>
    /\ UNCHANGED nonYzxVars

(***************************************************************************)
(* python/mkyzx.py: index_file                                             *)
(***************************************************************************)
\* TooShort with "<=" for "<"
TooShortInclusive(s) == Len(s) <= MinFields

\* if len(s) < 24: continue
TooShort(s) == Len(s) < MinFields

\* LookupKey that goes to the column's other key whenever the column has one
LookupKeyOtherFirst(col, content, fi) ==
    IF OtherKey(col) \in DOMAIN fi
    THEN OtherKey(col)
    ELSE FeatKey(col, content)

\* the key looked up for a value: its own key, else the column's other key
LookupKey(col, content, fi) ==
    IF FeatKey(col, content) \in DOMAIN fi
    THEN FeatKey(col, content)
    ELSE OtherKey(col)

\* one " id:1" pair, written only if the looked-up key has an id.
\* f records the column the loop was at when the pair was written.
Resolve(f, col, content, fi) ==
    LET feat == LookupKey(col, content, fi)
    IN  IF feat \in DOMAIN fi
        THEN <<[f |-> f, id |-> fi[feat]]>>
        ELSE <<>>

RECURSIVE ResolveTags(_, _, _, _)
ResolveTags(f, col, tags, fi) ==
    IF Len(tags) = 0 THEN <<>>
    ELSE Resolve(f, col, Head(tags), fi) \o ResolveTags(f, col, Tail(tags), fi)

\* the pairs the k-th feature of a row writes
IndexSlot(k, s, nc, fi) ==
    LET f == Slots[k]
    IN  IF f \notin DOMAIN nc THEN <<>>
        ELSE LET col == nc[f]
             IN  IF col >= Len(s) THEN <<>>
                 ELSE IF IsF1S(k) THEN Resolve(f, col, At(s, col), fi)
                 ELSE IF IsF1SP(k) THEN Resolve(f, col, feat_trans(f, At(s, col)), fi)
                 ELSE ResolveTags(f, col, get_tags(At(s, col)), fi)

RECURSIVE IndexSlotsFrom(_, _, _, _)
IndexSlotsFrom(k, s, nc, fi) ==
    IF k > Len(Slots) THEN <<>>
    ELSE IndexSlot(k, s, nc, fi) \o IndexSlotsFrom(k + 1, s, nc, fi)

RECURSIVE InsertById(_, _)
InsertById(sorted, p) ==
    IF Len(sorted) = 0 THEN <<p>>
    ELSE IF p.id < Head(sorted).id THEN <<p>> \o sorted
    ELSE <<Head(sorted)>> \o InsertById(Tail(sorted), p)

RECURSIVE SortById(_)
SortById(pairs) ==
    IF Len(pairs) = 0 THEN <<>>
    ELSE InsertById(SortById(SubSeq(pairs, 1, Len(pairs) - 1)), pairs[Len(pairs)])

\* RowPairs with the pairs written in ascending id order
RowPairsById(s, nc, fi) ==
    SortById(<<[f |-> "truncate", id |-> fi["truncate"]]>> \o IndexSlotsFrom(1, s, nc, fi))

\* the pairs of one written line, in the order written
RowPairs(s, nc, fi) ==
    <<[f |-> "truncate", id |-> fi["truncate"]]>> \o IndexSlotsFrom(1, s, nc, fi)

\* one written line: "<click> <winning_price>" and then the " id:1" pairs
IndexRow(s, nc, fi) ==
    [label |-> At(s, 0),
     weight |-> IF Len(s) > WeightCol THEN At(s, WeightCol) ELSE "0",
     pairs |-> RowPairs(s, nc, fi)]

InputOf(which) == IF which = "train" THEN trainFile ELSE testFile
OutputOf(which) == IF which = "train" THEN trainOut ELSE testOut

\* index_file up to the open of both files
IndexOpen(which) ==
    /\ pc = "open_" \o which
    /\ IF which = "test"
       THEN testFile' \in TestFiles \cup {NoFile}
       ELSE UNCHANGED testFile
    /\ LET input == IF which = "test" THEN testFile' ELSE trainFile
       IN  IF input = NoFile \/ "truncate" \notin DOMAIN featindex
           THEN pc' = "failed" /\ UNCHANGED <<trainOut, testOut>>
           ELSE /\ pc' = "enc_" \o which
                /\ IF which = "train"
                   THEN trainOut' = <<>> /\ UNCHANGED testOut
                   ELSE testOut' = <<>> /\ UNCHANGED trainOut
    /\ ln' = 0
    /\ UNCHANGED <<trainFile, run, slot, namecol, featindex, maxindex, prevIndex, indexOut>>
    /\ UNCHANGED nonYzxVars

RECURSIVE RowKeysFrom(_, _, _)
RowKeysFrom(k, s, nc) ==
    IF k > Len(Slots) THEN <<>>
    ELSE BuildSlotKeys(k, s, nc) \o RowKeysFrom(k + 1, s, nc)

\* IndexLine that gives an id to every key it has not seen
IndexLineLearning(which) ==
    /\ pc = "enc_" \o which
    /\ ln < Len(InputOf(which))
    /\ ln' = ln + 1
    /\ LET s == Fields(InputOf(which)[ln + 1])
           st == IF ln = 0 \/ TooShort(s)
                 THEN [index |-> featindex, max |-> maxindex]
                 ELSE RegisterAll([index |-> featindex, max |-> maxindex],
                                  RowKeysFrom(1, s, namecol))
           written == IF ln = 0 \/ TooShort(s)
                      THEN <<>>
                      ELSE <<IndexRow(s, namecol, st.index)>>
       IN  /\ featindex' = st.index
           /\ maxindex' = st.max
           /\ IF which = "train"
              THEN trainOut' = trainOut \o written /\ UNCHANGED testOut
              ELSE testOut' = testOut \o written /\ UNCHANGED trainOut
    /\ UNCHANGED <<trainFile, testFile, pc, run, slot, namecol, prevIndex, indexOut>>
    /\ UNCHANGED nonYzxVars

\* one iteration of index_file's loop over the input lines
IndexLine(which) ==
    /\ pc = "enc_" \o which
    /\ ln < Len(InputOf(which))
    /\ ln' = ln + 1
    /\ LET s == Fields(InputOf(which)[ln + 1])
           written == IF ln = 0 \/ TooShort(s)
                      THEN <<>>
                      ELSE <<IndexRow(s, namecol, featindex)>>
       IN  IF which = "train"
           THEN trainOut' = trainOut \o written /\ UNCHANGED testOut
           ELSE testOut' = testOut \o written /\ UNCHANGED trainOut
    /\ UNCHANGED <<trainFile, testFile, pc, run, slot, namecol, featindex, maxindex,
                   prevIndex, indexOut>>
    /\ UNCHANGED nonYzxVars

\* the input is exhausted: both files are closed and index_file returns
IndexClose(which) ==
    /\ pc = "enc_" \o which
    /\ ln = Len(InputOf(which))
    /\ pc' = IF which = "train" THEN "open_test" ELSE "done"
    /\ UNCHANGED <<trainFile, testFile, run, ln, slot, namecol, featindex, maxindex,
                   prevIndex, indexOut, trainOut, testOut>>
    /\ UNCHANGED nonYzxVars

\* an OSError while index_file reads a line or writes one: the with block
\* closes both files, the except clause raises RuntimeError, main exits
IndexWriteFails(which) ==
    /\ pc = "enc_" \o which
    /\ pc' = "io_error_" \o which
    /\ UNCHANGED <<trainFile, testFile, run, ln, slot, namecol, featindex, maxindex,
                   prevIndex, indexOut, trainOut, testOut>>
    /\ UNCHANGED nonYzxVars

YzxInit ==
    /\ trainFile \in TrainFiles
    /\ testFile = NoFile
    /\ pc = "start"
    /\ run = 1
    /\ ln = 0
    /\ slot = 0
    /\ namecol = EmptyDict
    /\ featindex = EmptyDict
    /\ maxindex = 0
    /\ prevIndex = EmptyDict
    /\ indexOut = NoIndex
    /\ trainOut = NoOutput
    /\ testOut = NoOutput

\* main: build the index, write it, encode the training and the test log
YzxNext ==
    \/ BuildOpen
    \/ BuildReadLine
    \/ BuildHeaderCell
    \/ BuildRowSlot
    \/ BuildReturn
    \/ WriteIndex
    \/ \E which \in {"train", "test"} : IndexOpen(which)
    \/ \E which \in {"train", "test"} : IndexLine(which)
    \/ \E which \in {"train", "test"} : IndexClose(which)

\* main in an environment where reads and writes can fail
IONext ==
    \/ YzxNext
    \/ \E which \in {"train", "test"} : IndexWriteFails(which)

\* build_feature_index called twice on the same training file
TwiceNext ==
    \/ BuildOpen
    \/ BuildReadLine
    \/ BuildHeaderCell
    \/ BuildRowSlot
    \/ BuildReturn
    \/ Rebuild

(***************************************************************************)
(* python/mkdata.py: helpers                                               *)
(***************************************************************************)
RECURSIVE SkipSpace(_, _)
SkipSpace(s, i) == IF i <= Len(s) /\ IsSpace(Ch(s, i)) THEN SkipSpace(s, i + 1) ELSE i

RECURSIVE SkipWord(_, _)
SkipWord(s, i) == IF i <= Len(s) /\ ~IsSpace(Ch(s, i)) THEN SkipWord(s, i + 1) ELSE i

RECURSIVE SplitWSFrom(_, _)
SplitWSFrom(s, from) ==
    LET b == SkipSpace(s, from)
        e == SkipWord(s, b)
    IN  IF b > Len(s) THEN <<>>
        ELSE <<SubSeq(s, b, e - 1)>> \o SplitWSFrom(s, e)

\* str.split() without a separator: the words between runs of whitespace
SplitWS(s) == SplitWSFrom(s, 1)

\* list.index(x): the first position of x (0-based), -1 standing for ValueError
IndexOf(list, x) ==
    IF \E i \in 1..Len(list) : list[i] = x
    THEN (CHOOSE i \in 1..Len(list) : list[i] = x /\ \A j \in 1..(i - 1) : list[j] # x) - 1
    ELSE 0 - 1

\* s[a:b]
Slice(s, a, b) == SubSeq(s, a + 1, IF b < Len(s) THEN b ELSE Len(s))

Max(a, b) == IF a > b THEN a ELSE b

IsLeap(y) == (y % 4 = 0 /\ y % 100 # 0) \/ y % 400 = 0

DaysInMonth(y, m) ==
    IF m = 2 THEN (IF IsLeap(y) THEN 29 ELSE 28)
    ELSE IF m \in {4, 6, 9, 11} THEN 30
    ELSE 31

\* datetime.date(y, m, d) accepts exactly these
ValidDate(y, m, d) ==
    /\ y >= 1 /\ y <= 9999
    /\ m >= 1 /\ m <= 12
    /\ d >= 1 /\ d <= DaysInMonth(y, m)

\* date.strftime("%w"): the day of the week, Sunday = 0
WeekdayOf(y, m, d) ==
    LET t == <<0, 3, 2, 5, 0, 3, 5, 1, 4, 6, 2, 4>>
        yy == IF m < 3 THEN y - 1 ELSE y
    IN  (yy + (yy \div 4) - (yy \div 100) + (yy \div 400) + t[m] + d) % 7

\* load_schema: [s.strip() for s in f.read().split()]
LoadSchema(text) == LET w == SplitWS(text) IN [i \in 1..Len(w) |-> Strip(w[i])]

\* bid = arr[0] + "-" + arr[creative_index]
ClickKey(arr, creative_index) == At(arr, 0) \o "-" \o At(arr, creative_index)

\* the timestamp part of process_data's loop body: what it derives, or the
\* ValueError it raises
ParseTimestamp(ts) ==
    IF Len(ts) < 8 THEN [ok |-> FALSE, weekday |-> 0, hour |-> ""]
    ELSE LET year == ParseInt(Slice(ts, 0, 4))
             month == ParseInt(Slice(ts, 4, 6))
             day == ParseInt(Slice(ts, 6, 8))
         IN  IF year.ok /\ month.ok /\ day.ok /\ ValidDate(year.val, month.val, day.val)
             THEN [ok |-> TRUE,
                   weekday |-> WeekdayOf(year.val, month.val, day.val),
                   hour |-> IF Len(ts) > 10 THEN Slice(ts, 8, 10) ELSE "00"]
             ELSE [ok |-> FALSE, weekday |-> 0, hour |-> ""]

\* ClickLabel by the truth of the stored line count: "1" if bmap.get(bid)
ClickLabelTruthy(bid, m) == IF bid \in DOMAIN m /\ m[bid] # 0 THEN "1" ELSE "0"

\* click = "1" if bid in bmap else "0"
ClickLabel(bid, m) == IF bid \in DOMAIN m THEN "1" ELSE "0"

(***************************************************************************)
(* Inputs of mkdata                                                        *)
(***************************************************************************)
MaxClickFiles == 2
MaxClickLines == 1
MaxImpLines == 1

SchemaPool ==
    { "bidid\ntimestamp\ncreative\n",
      " bidid  timestamp\tcreative\nadvertiser \n",
      "bidid\ntimestamp\n",
      "bidid\ncreative\n",
      "" }

ClickLinePool ==
    { "a\t20130615101500\tb\n",
      "a-\t20130615101500\tb\n",
      "a\n" }

ImpLinePool ==
    { "a\t20130615101500\tb\n",
      "z\t2013061510\tb\n",
      "a\t20130615\t-b\n",
      "a\t2013\tb\n",
      "a\t20130231\tb\n",
      "a\n" }

ClickFileSets == SeqsUpTo(SeqsUpTo(ClickLinePool, MaxClickLines), MaxClickFiles)

(***************************************************************************)
(* python/mkdata.py: main, build_click_map, process_data                   *)
(***************************************************************************)
\* main up to the call of build_click_map
JoinLoadSchema ==
    /\ jpc = "start"
    /\ schema' = LoadSchema(schemaText)
    /\ jpc' = IF Len(schema') = 0 \/ IndexOf(schema', "creative") < 0
              THEN "failed"
              ELSE "clicks"
    /\ UNCHANGED <<schemaText, clickFiles, cfile, cline, bmap, nread, stdout>>
    /\ UNCHANGED nonJoinVars

\* one line of one click file
ClickLine ==
    /\ jpc = "clicks"
    /\ cfile < Len(clickFiles)
    /\ cline < Len(clickFiles[cfile + 1])
    /\ LET creative_index == IndexOf(schema, "creative")
           lcnt == cline
           arr == Fields(clickFiles[cfile + 1][cline + 1])
       IN  bmap' = IF Len(arr) > creative_index
                   THEN Put(bmap, ClickKey(arr, creative_index), lcnt)
                   ELSE bmap
    /\ cline' = cline + 1
    /\ UNCHANGED <<schemaText, clickFiles, jpc, schema, cfile, nread, stdout>>
    /\ UNCHANGED nonJoinVars

\* the end of one click file
ClickFileEnd ==
    /\ jpc = "clicks"
    /\ cfile < Len(clickFiles)
    /\ cline = Len(clickFiles[cfile + 1])
    /\ cfile' = cfile + 1
    /\ cline' = 0
    /\ UNCHANGED <<schemaText, clickFiles, jpc, schema, bmap, nread, stdout>>
    /\ UNCHANGED nonJoinVars

\* build_click_map returns; process_data up to the header line
ProcessOpen ==
    /\ jpc = "clicks"
    /\ cfile = Len(clickFiles)
    /\ IF IndexOf(schema, "timestamp") < 0 \/ IndexOf(schema, "creative") < 0
       THEN jpc' = "failed" /\ UNCHANGED stdout
       ELSE /\ jpc' = "lines"
            /\ stdout' = Append(stdout, "click\tweekday\thour\t" \o Join(schema, "\t") \o "\n")
    /\ UNCHANGED <<schemaText, clickFiles, schema, cfile, cline, bmap, nread>>
    /\ UNCHANGED nonJoinVars

\* one line of stdin
ProcessLine ==
    /\ jpc = "lines"
    /\ nread < MaxImpLines
    /\ nread' = nread + 1
    /\ \E line \in ImpLinePool :
         LET timestamp_index == IndexOf(schema, "timestamp")
             creative_index == IndexOf(schema, "creative")
             arr == Fields(line)
         IN  IF Len(arr) <= Max(timestamp_index, creative_index)
             THEN UNCHANGED <<jpc, stdout>>
             ELSE LET click == ClickLabel(ClickKey(arr, creative_index), bmap)
                      p == ParseTimestamp(At(arr, timestamp_index))
                  IN  IF ~p.ok
                      THEN jpc' = "failed" /\ UNCHANGED stdout
                      ELSE /\ stdout' = Append(stdout,
                                  click \o "\t" \o ToString(p.weekday) \o "\t" \o p.hour
                                  \o "\t" \o line)
                           /\ UNCHANGED jpc
    /\ UNCHANGED <<schemaText, clickFiles, schema, cfile, cline, bmap>>
    /\ UNCHANGED nonJoinVars

\* stdin is exhausted
ProcessEnd ==
    /\ jpc = "lines"
    /\ jpc' = "done"
    /\ UNCHANGED <<schemaText, clickFiles, schema, cfile, cline, bmap, nread, stdout>>
    /\ UNCHANGED nonJoinVars

JoinInit ==
    /\ schemaText \in SchemaPool
    /\ clickFiles \in ClickFileSets
    /\ jpc = "start"
    /\ schema = <<>>
    /\ cfile = 0
    /\ cline = 0
    /\ bmap = EmptyDict
    /\ nread = 0
    /\ stdout = <<>>

JoinNext ==
    \/ JoinLoadSchema
    \/ ClickLine
    \/ ClickFileEnd
    \/ ProcessOpen
    \/ ProcessLine
    \/ ProcessEnd

(***************************************************************************)
(* python/mktest.py: main, load_schema, process_data.  The run uses the    *)
(* variables of mkdata that it has: schemaText, schema, jpc, nread, stdout.*)
(***************************************************************************)
MaxTestLines == 2

TestLinePool ==
    { "a\t20130615101500\tb\t0\t0\n",
      "a\t20130615101500\tb\t2\t0\n",
      "a\t20130615101500\tb\t 0\t1\n",
      "a\t20130615101500\t0\tb\n",
      "a\t2013\tb\t0\t0\n",
      "a\n" }

\* load_schema: the columns of the file and the two additional columns
TestLoadSchema(text) ==
    LET s == LoadSchema(text)
    IN  IF Len(s) = 0 THEN s ELSE s \o <<"nclick", "nconversation">>

\* click = "0" if len(arr) >= 2 and arr[-2] == "0" else "1"
TestClickLabel(arr) ==
    IF Len(arr) >= 2 /\ arr[Len(arr) - 1] = "0" THEN "0" ELSE "1"

\* main up to the call of process_data
TestLoad ==
    /\ jpc = "start"
    /\ schema' = TestLoadSchema(schemaText)
    /\ jpc' = IF Len(schema') = 0 THEN "failed" ELSE "open"
    /\ UNCHANGED <<schemaText, clickFiles, cfile, cline, bmap, nread, stdout>>
    /\ UNCHANGED nonJoinVars

\* process_data up to the header line
TestOpen ==
    /\ jpc = "open"
    /\ IF IndexOf(schema, "timestamp") < 0
       THEN jpc' = "failed" /\ UNCHANGED stdout
       ELSE /\ jpc' = "lines"
            /\ stdout' = Append(stdout, "click\tweekday\thour\t" \o Join(schema, "\t") \o "\n")
    /\ UNCHANGED <<schemaText, clickFiles, schema, cfile, cline, bmap, nread>>
    /\ UNCHANGED nonJoinVars

\* one line of stdin
TestLine ==
    /\ jpc = "lines"
    /\ nread < MaxTestLines
    /\ nread' = nread + 1
    /\ \E line \in TestLinePool :
         LET timestamp_index == IndexOf(schema, "timestamp")
             arr == Fields(line)
         IN  IF Len(arr) < 2 \/ Len(arr) <= timestamp_index
             THEN UNCHANGED <<jpc, stdout>>
             ELSE LET click == TestClickLabel(arr)
                      p == ParseTimestamp(At(arr, timestamp_index))
                  IN  IF ~p.ok
                      THEN jpc' = "failed" /\ UNCHANGED stdout
                      ELSE /\ stdout' = Append(stdout,
                                  click \o "\t" \o ToString(p.weekday) \o "\t" \o p.hour
                                  \o "\t" \o line)
                           /\ UNCHANGED jpc
    /\ UNCHANGED <<schemaText, clickFiles, schema, cfile, cline, bmap>>
    /\ UNCHANGED nonJoinVars

\* stdin is exhausted
TestEnd ==
    /\ jpc = "lines"
    /\ jpc' = "done"
    /\ UNCHANGED <<schemaText, clickFiles, schema, cfile, cline, bmap, nread, stdout>>
    /\ UNCHANGED nonJoinVars

TestInit ==
    /\ schemaText \in SchemaPool
    /\ clickFiles = <<>>
    /\ jpc = "start"
    /\ schema = <<>>
    /\ cfile = 0
    /\ cline = 0
    /\ bmap = EmptyDict
    /\ nread = 0
    /\ stdout = <<>>

TestNext ==
    \/ TestLoad
    \/ TestOpen
    \/ TestLine
    \/ TestEnd

(***************************************************************************)
(* python/splitadvertisers.py: split_file_by_advertiser                    *)
(***************************************************************************)
MaxSplitRows == 2

SplitHeaderPool == { "click\tadvertiser\n", " \n" }

SplitRowPool ==
    { "1\t1458\n",
      "0\t3386\n",
      "0\t1458\n",
      "0\t1458\t3386\n",
      "0\t\n",
      "1\n" }

SplitInputs ==
    {NoFile, <<>>}
    \cup { <<h>> \o rows : h \in SplitHeaderPool, rows \in SeqsUpTo(SplitRowPool, MaxSplitRows) }

SplitIndexPool == {0 - 1, 0, 1, 2}

\* WriteRow that opens the advertiser's file anew, with "w", for every row
WriteRowKeepLast(outs, advertiser, hdr, line) ==
    Put(outs, advertiser, <<hdr, line>>)

\* the files after one row: on the advertiser's first row its file
\* is opened and the row is written
WriteRowNoHeader(outs, advertiser, hdr, line) ==
    IF advertiser \notin DOMAIN outs
    THEN Put(outs, advertiser, <<line>>)
    ELSE Put(outs, advertiser, Append(outs[advertiser], line))

\* the files after one row: on the advertiser's first row its file is opened
\* and the header is written; then the row is written
WriteRow(outs, advertiser, hdr, line) ==
    IF advertiser \notin DOMAIN outs
    THEN Put(outs, advertiser, <<hdr, line>>)
    ELSE Put(outs, advertiser, Append(outs[advertiser], line))

\* the checks before the input is opened
SplitOpen ==
    /\ spc = "start"
    /\ spc' = IF splitInput = NoFile \/ advertiser_index < 0 THEN "failed" ELSE "read"
    /\ UNCHANGED <<splitInput, advertiser_index, sln, header, advertiser_files,
                   advertiser_dirs, open_handles>>
    /\ UNCHANGED nonSplitVars

\* one line of the input
SplitLine ==
    /\ spc = "read"
    /\ sln < Len(splitInput)
    /\ sln' = sln + 1
    /\ LET line == splitInput[sln + 1]
           fields == Fields(line)
       IN  IF sln = 0
           THEN /\ header' = line
                /\ spc' = IF Strip(line) = "" THEN "failed" ELSE "read"
                /\ UNCHANGED <<advertiser_files, advertiser_dirs, open_handles>>
           ELSE IF advertiser_index >= Len(fields) \/ At(fields, advertiser_index) = ""
           THEN UNCHANGED <<spc, header, advertiser_files, advertiser_dirs, open_handles>>
           ELSE LET advertiser == At(fields, advertiser_index)
                IN  /\ advertiser_dirs' = advertiser_dirs \cup {advertiser}
                    /\ advertiser_files' = WriteRow(advertiser_files, advertiser, header, line)
                    /\ open_handles' = open_handles \cup {advertiser}
                    /\ UNCHANGED <<spc, header>>
    /\ UNCHANGED <<splitInput, advertiser_index>>
    /\ UNCHANGED nonSplitVars

\* the input is exhausted: all files are closed
SplitClose ==
    /\ spc = "read"
    /\ sln = Len(splitInput)
    /\ spc' = "done"
    /\ open_handles' = {}
    /\ UNCHANGED <<splitInput, advertiser_index, sln, header, advertiser_files,
                   advertiser_dirs>>
    /\ UNCHANGED nonSplitVars

\* the next line is the first row of its advertiser
OpensFile ==
    /\ spc = "read"
    /\ 0 < sln /\ sln < Len(splitInput)
    /\ LET fields == Fields(splitInput[sln + 1])
       IN  /\ advertiser_index < Len(fields)
           /\ At(fields, advertiser_index) # ""
           /\ At(fields, advertiser_index) \notin DOMAIN advertiser_files

\* mkdir raises OSError: the RuntimeError raised for it leaves the function
\* past the handler of OSError
SplitMkdirFails ==
    /\ OpensFile
    /\ sln' = sln + 1
    /\ spc' = "create_error"
    /\ UNCHANGED <<splitInput, advertiser_index, header, advertiser_files,
                   advertiser_dirs, open_handles>>
    /\ UNCHANGED nonSplitVars

\* the directory is made, open raises OSError: RuntimeError as for mkdir
SplitCreateFails ==
    /\ OpensFile
    /\ sln' = sln + 1
    /\ advertiser_dirs' = advertiser_dirs
                              \cup {At(Fields(splitInput[sln + 1]), advertiser_index)}
    /\ spc' = "create_error"
    /\ UNCHANGED <<splitInput, advertiser_index, header, advertiser_files, open_handles>>
    /\ UNCHANGED nonSplitVars

\* reading the input or writing a row raises OSError: the handler closes
\* every file of advertiser_files
SplitIOError ==
    /\ spc = "read"
    /\ spc' = "io_error"
    /\ open_handles' = {}
    /\ UNCHANGED <<splitInput, advertiser_index, sln, header, advertiser_files,
                   advertiser_dirs>>
    /\ UNCHANGED nonSplitVars

SplitInit ==
    /\ splitInput \in SplitInputs
    /\ advertiser_index \in SplitIndexPool
    /\ spc = "start"
    /\ sln = 0
    /\ header = ""
    /\ advertiser_files = EmptyDict
    /\ advertiser_dirs = {}
    /\ open_handles = {}

SplitNext ==
    \/ SplitOpen
    \/ SplitLine
    \/ SplitClose

SplitIONext ==
    \/ SplitNext
    \/ SplitMkdirFails
    \/ SplitCreateFails
    \/ SplitIOError

(***************************************************************************)
(* duckdb_pipeline.py: ensure_uncompressed and decompress_one.  A path is  *)
(* the sequence of its parts.                                              *)
(***************************************************************************)
MaxZipFiles == 2

dataset_root == <<"data">>
cache_dir == <<"cache">>

ZipFilePool ==
    { <<"data", "imp.a.txt.bz2">>,
      <<"mirror", "imp.a.txt.bz2">>,
      <<"data", "clk.a.txt.bz2">>,
      <<"data", "imp.b.txt">> }

WorkerPool == {1, 2}

PathName(path) == path[Len(path)]

RECURSIVE FindLast(_, _, _)
\* the last position of c in s up to position i, or 0
FindLast(s, c, i) ==
    IF i = 0 THEN 0
    ELSE IF Ch(s, i) = c THEN i
    ELSE FindLast(s, c, i - 1)

\* Path.suffix: the name from its last dot on, if that dot is not the
\* first or the last character of the name
Suffix(path) ==
    LET name == PathName(path)
        k == FindLast(name, ".", Len(name))
    IN  IF k > 1 /\ k < Len(name) THEN SubSeq(name, k, Len(name)) ELSE ""

\* Path.with_suffix(""): the path with the suffix of its name removed
WithoutSuffix(path) ==
    LET name == PathName(path)
    IN  SubSeq(path, 1, Len(path) - 1)
        \o <<SubSeq(name, 1, Len(name) - Len(Suffix(path)))>>

IsUnder(path, root) ==
    Len(path) >= Len(root) /\ SubSeq(path, 1, Len(root)) = root

\* src.relative_to(dataset_root), or Path(src.name) on ValueError
RelativePath(src) ==
    IF IsUnder(src, dataset_root)
    THEN SubSeq(src, Len(dataset_root) + 1, Len(src))
    ELSE <<PathName(src)>>

\* dest = cache_dir / rel.with_suffix("")
Destination(src) == cache_dir \o WithoutSuffix(RelativePath(src))

PathStr(path) == Join(path, "/")

Exists(dest, c) == PathStr(dest) \in DOMAIN c

RECURSIVE PendingOf(_, _, _)
\* the loop over files: the pairs appended to pending
PendingOf(fs, c, f) ==
    IF Len(fs) = 0 THEN <<>>
    ELSE LET src == Head(fs)
             rest == PendingOf(Tail(fs), c, f)
         IN  IF Suffix(src) = ".bz2" /\ (f \/ ~Exists(Destination(src), c))
             THEN <<[src |-> src, dest |-> Destination(src)]>> \o rest
             ELSE rest

\* the loop over files: the paths appended to prepared
PreparedOf(fs) ==
    [i \in 1..Len(fs) |-> IF Suffix(fs[i]) = ".bz2" THEN Destination(fs[i]) ELSE fs[i]]

Running == {i \in DOMAIN task : task[i] = "running"}

AllDone == \A i \in DOMAIN task : task[i] = "done"

\* ensure_uncompressed up to the submission of every pair to the executor
Prepare ==
    /\ zpc = "start"
    /\ pending' = PendingOf(files, cache, force)
    /\ prepared' = PreparedOf(files)
    /\ task' = [i \in 1..Len(pending') |-> "queued"]
    /\ zpc' = "pool"
    /\ UNCHANGED <<files, cache, force, worker_count>>
    /\ UNCHANGED nonUnzipVars

\* a free worker thread takes the oldest queued pair: decompress_one opens
\* dest for writing
TaskStart ==
    /\ zpc = "pool"
    /\ Cardinality(Running) < worker_count
    /\ \E i \in DOMAIN task :
          /\ task[i] = "queued"
          /\ \A j \in 1..(i - 1) : task[j] # "queued"
          /\ task' = [task EXCEPT ![i] = "running"]
          /\ cache' = Put(cache, PathStr(pending[i].dest), "partial")
    /\ UNCHANGED <<files, force, worker_count, zpc, pending, prepared>>
    /\ UNCHANGED nonUnzipVars

\* decompress_one has copied the whole archive and closes dest
TaskFinish ==
    /\ zpc = "pool"
    /\ \E i \in Running :
          /\ task' = [task EXCEPT ![i] = "done"]
          /\ cache' = Put(cache, PathStr(pending[i].dest), "complete")
    /\ UNCHANGED <<files, force, worker_count, zpc, pending, prepared>>
    /\ UNCHANGED nonUnzipVars

\* ensure_uncompressed returns without waiting for the executor
PoolExitNoWait ==
    /\ zpc = "pool"
    /\ zpc' = "returned"
    /\ UNCHANGED <<files, cache, force, worker_count, pending, prepared, task>>
    /\ UNCHANGED nonUnzipVars

\* as_completed has yielded every future and the with block has shut the
\* executor down: ensure_uncompressed returns prepared
PoolExit ==
    /\ zpc = "pool"
    /\ AllDone
    /\ zpc' = "returned"
    /\ UNCHANGED <<files, cache, force, worker_count, pending, prepared, task>>
    /\ UNCHANGED nonUnzipVars

\* main registers the returned files with the join engine
RegisterFiles ==
    /\ zpc = "returned"
    /\ zpc' = "registered"
    /\ UNCHANGED <<files, cache, force, worker_count, pending, prepared, task>>
    /\ UNCHANGED nonUnzipVars

UnzipInit ==
    /\ files \in SeqsUpTo(ZipFilePool, MaxZipFiles)
    /\ cache \in {EmptyDict, Put(EmptyDict, "cache/imp.a.txt", "complete")}
    /\ force \in BOOLEAN
    /\ worker_count \in WorkerPool
    /\ zpc = "start"
    /\ pending = <<>>
    /\ prepared = <<>>
    /\ task = <<>>

UnzipNext ==
    \/ Prepare
    \/ TaskStart
    \/ TaskFinish
    \/ PoolExit
    \/ RegisterFiles

(***************************************************************************)
(* duckdb_pipeline.py: the SQL the pipeline runs.  A nullable VARCHAR is   *)
(* <<>> for NULL and <<v>> for the value v; a table is the sequence of its *)
(* rows.                                                                   *)
(***************************************************************************)
MaxDuckRows == 1

Null == <<>>
Some(v) == <<v>>
IsNull(x) == x = Null

\* the training rounds: sorted(dataset_root.glob("training*"))
Rounds == <<"training2nd", "training3rd">>

\* the schema the modelled run reads from its schema file
DuckColumns == <<"bidid", "timestamp", "creative">>

DuckImpPool ==
    { "a\t20130615101500\tb\n",
      "\t20130615\tx\n",
      "x\n" }

DuckClkPool ==
    { "a\t20130615101500\tb\n",
      "x\t20130615101500\t\n" }

\* read_csv(..., columns, nullstr='', null_padding=TRUE): one row; an empty
\* or missing field is NULL
ReadCsvRow(line, columns) ==
    LET arr == Fields(line)
    IN  [c \in {columns[i] : i \in 1..Len(columns)} |->
            LET i == IndexOf(columns, c) + 1
            IN  IF i <= Len(arr) /\ arr[i] # "" THEN Some(arr[i]) ELSE Null]

\* concat_ws(sep, args...): the non-NULL arguments joined by sep
ConcatWs(sep, args) ==
    LET present == SelectSeq(args, LAMBDA x : ~IsNull(x))
    IN  Join([i \in 1..Len(present) |-> present[i][1]], sep)

\* concat_ws('-', bidid, creative) AS bid_creative_key
BidCreativeKey(row) == ConcatWs("-", <<row["bidid"], row["creative"]>>)

\* register_impressions: every row with its key and its round
RegisterImpressions(lines, columns, round_name) ==
    [i \in 1..Len(lines) |->
        LET row == ReadCsvRow(lines[i], columns)
        IN  [cols |-> row, bid_creative_key |-> BidCreativeKey(row),
             round_name |-> round_name]]

RECURSIVE Distinct(_)
\* SELECT DISTINCT: each row once
Distinct(rows) ==
    IF Len(rows) = 0 THEN <<>>
    ELSE LET rest == Distinct(SubSeq(rows, 1, Len(rows) - 1))
             last == rows[Len(rows)]
         IN  IF \E i \in 1..Len(rest) : rest[i] = last THEN rest ELSE Append(rest, last)

\* register_clicks: the distinct (key, round) pairs
RegisterClicks(lines, columns, round_name) ==
    Distinct([i \in 1..Len(lines) |->
        [bid_creative_key |-> BidCreativeKey(ReadCsvRow(lines[i], columns)),
         round_name |-> round_name]])

RECURSIVE UnionAll(_, _)
\* SELECT * FROM t1 UNION ALL SELECT * FROM t2 ... over the first n rounds
UnionAll(tables, n) ==
    IF n = 0 THEN <<>> ELSE UnionAll(tables, n - 1) \o tables[Rounds[n]]

AllDigits(s) == \A i \in 1..Len(s) : IsDigit(Ch(s, i))

\* try_strptime(ts, '%Y%m%d%H%M%S'): whether it parses
Strptime(ts) ==
    /\ ~IsNull(ts)
    /\ Len(ts[1]) = 14
    /\ AllDigits(ts[1])
    /\ ValidDate(ParseInt(Slice(ts[1], 0, 4)).val, ParseInt(Slice(ts[1], 4, 6)).val,
                 ParseInt(Slice(ts[1], 6, 8)).val)
    /\ ParseInt(Slice(ts[1], 8, 10)).val < 24
    /\ ParseInt(Slice(ts[1], 10, 12)).val < 60
    /\ ParseInt(Slice(ts[1], 12, 14)).val < 60

\* COALESCE(CAST(strftime('%w', try_strptime(...)) AS VARCHAR), '0')
WeekdayExpr(ts) ==
    IF Strptime(ts)
    THEN ToString(WeekdayOf(ParseInt(Slice(ts[1], 0, 4)).val, ParseInt(Slice(ts[1], 4, 6)).val,
                            ParseInt(Slice(ts[1], 6, 8)).val))
    ELSE "0"

\* CASE WHEN length(ts) >= 10 THEN substr(ts, 9, 2) ELSE '00' END
HourExpr(ts) ==
    IF ~IsNull(ts) /\ Len(ts[1]) >= 10 THEN SubSeq(ts[1], 9, 10) ELSE "00"

\* COALESCE(NULLIF(TRIM(x), ''), 'null'); TRIM removes spaces
RECURSIVE TrimSpaces(_)
TrimSpaces(s) ==
    IF Len(s) > 0 /\ Ch(s, 1) = " " THEN TrimSpaces(Tail(s))
    ELSE IF Len(s) > 0 /\ Ch(s, Len(s)) = " " THEN TrimSpaces(SubSeq(s, 1, Len(s) - 1))
    ELSE s

Normalized(x) == IF IsNull(x) \/ TrimSpaces(x[1]) = "" THEN "null" ELSE TrimSpaces(x[1])

\* the rows of clicks that join a row of impressions: LEFT JOIN ... c USING (bid_creative_key)
JoinMatches(imp, clicks) ==
    SelectSeq(clicks, LAMBDA c : c.bid_creative_key = imp.bid_creative_key)

\* the projection of one joined row; src is the position of the impression in
\* the impressions table
Projected(imp, src, click, columns) ==
    [click |-> click,
     weekday |-> WeekdayExpr(imp.cols["timestamp"]),
     hour |-> HourExpr(imp.cols["timestamp"]),
     round |-> imp.round_name,
     cols |-> [i \in 1..Len(columns) |-> Normalized(imp.cols[columns[i]])],
     src |-> src]

\* select_columns: the names of the projection, in the order of the SELECT
SelectColumns(columns) == <<"click", "weekday", "hour", "round">> \o columns

\* the rows one impression gives in the joined table: one per matching click
\* row with click '1', or one with click '0' when none matches
JoinedRows(imp, src, clicks, columns) ==
    LET m == JoinMatches(imp, clicks)
    IN  IF Len(m) = 0
        THEN <<Projected(imp, src, "0", columns)>>
        ELSE [j \in 1..Len(m) |-> Projected(imp, src, "1", columns)]

RECURSIVE ProcessedTable(_, _, _, _)
\* build_processed_table with a click table, over the first n impressions
ProcessedTable(impressions, n, clicks, columns) ==
    IF n = 0 THEN <<>>
    ELSE ProcessedTable(impressions, n - 1, clicks, columns)
         \o JoinedRows(impressions[n], n, clicks, columns)

(***************************************************************************)
(* duckdb_pipeline.py: main, the training side                             *)
(***************************************************************************)
\* one iteration of the loop over train_dirs
RegisterRound ==
    /\ dpc = "register"
    /\ nrounds < Len(Rounds)
    /\ LET round_name == Rounds[nrounds + 1]
       IN  /\ impTables' = [impTables EXCEPT ![round_name] =
                               RegisterImpressions(impLogs[round_name], DuckColumns, round_name)]
           /\ clkTables' = [clkTables EXCEPT ![round_name] =
                               RegisterClicks(clkLogs[round_name], DuckColumns, round_name)]
    /\ nrounds' = nrounds + 1
    /\ UNCHANGED <<impLogs, clkLogs, dpc, train_impressions, train_clicks, train_processed,
                   train_columns>>
    /\ UNCHANGED nonDuckVars

\* CREATE OR REPLACE TABLE train_impressions / train_clicks
UnionRounds ==
    /\ dpc = "register"
    /\ nrounds = Len(Rounds)
    /\ train_impressions' = UnionAll(impTables, Len(Rounds))
    /\ train_clicks' = UnionAll(clkTables, Len(Rounds))
    /\ dpc' = "process"
    /\ UNCHANGED <<impLogs, clkLogs, nrounds, impTables, clkTables, train_processed,
                   train_columns>>
    /\ UNCHANGED nonDuckVars

\* build_processed_table(train_processed, train_impressions, click_table=train_clicks)
BuildProcessed ==
    /\ dpc = "process"
    /\ train_processed' = ProcessedTable(train_impressions, Len(train_impressions),
                                         train_clicks, DuckColumns)
    /\ train_columns' = SelectColumns(DuckColumns)
    /\ dpc' = "done"
    /\ UNCHANGED <<impLogs, clkLogs, nrounds, impTables, clkTables, train_impressions,
                   train_clicks>>
    /\ UNCHANGED nonDuckVars

RoundSet == {Rounds[i] : i \in 1..Len(Rounds)}

DuckInit ==
    /\ impLogs \in [RoundSet -> SeqsUpTo(DuckImpPool, MaxDuckRows)]
    /\ clkLogs \in [RoundSet -> SeqsUpTo(DuckClkPool, MaxDuckRows)]
    /\ dpc = "register"
    /\ nrounds = 0
    /\ impTables = [r \in RoundSet |-> <<>>]
    /\ clkTables = [r \in RoundSet |-> <<>>]
    /\ train_impressions = <<>>
    /\ train_clicks = <<>>
    /\ train_processed = <<>>
    /\ train_columns = <<>>

DuckNext ==
    \/ RegisterRound
    \/ UnionRounds
    \/ BuildProcessed

(***************************************************************************)
(* Single calls: get_tags and feat_trans of python/mkyzx.py, and the       *)
(* worker counts of core/unzip_bz2/normalize_cores.py, duckdb_pipeline.py  *)
(* and make_ipinyou_data/utils/decompress.py                               *)
(***************************************************************************)
MaxPrice == 110
MaxRequested == 5
MaxCpus == 4

\* the integers a slot price is drawn from, as int() reads them
PriceRange == (0 - 3)..MaxPrice

\* the decimal text of an integer: str(n)
IntText(n) == IF n < 0 THEN "-" \o ToString(0 - n) ELSE ToString(n)

\* field values that are not integers
TextPool ==
    { "", " ", "  ", "abc", "n/a", "10.5", "1,2,3", " 1,2 ", "10057,10059",
      "null", "Mozilla/5.0 (Windows NT 6.1) Chrome/21", "Safari iOS" }

ContentPool == { IntText(n) : n \in PriceRange } \cup TextPool

NullableInts(lo, hi) == { <<>> } \cup { <<n>> : n \in lo..hi }

\* os.cpu_count() or dflt
CpuCountOr(dflt) == IF cpu_count = <<>> THEN dflt ELSE cpu_count[1]

normalize_cores(req) ==
    LET cpu_total == CpuCountOr(1)
        upper_bound == Max(1, cpu_total - 1)
        Min(a, b) == IF a < b THEN a ELSE b
    IN  IF req = <<>> THEN cpu_total
        ELSE Max(1, Min(req[1], upper_bound))

\* workers or max(1, (os.cpu_count() or 2) - 1)
WorkersOrDefault(workers) ==
    IF workers = <<>> \/ workers[1] = 0
    THEN Max(1, CpuCountOr(2) - 1)
    ELSE workers[1]

GetTagsCall ==
    /\ fpc = "call"
    /\ callTags' = get_tags(callContent)
    /\ called' = "get_tags"
    /\ fpc' = "returned"
    /\ UNCHANGED <<callContent, requested, cpu_count, callTransformed, cores>>
    /\ UNCHANGED nonCallVars

FeatTransCall ==
    /\ fpc = "call"
    /\ \E name \in {"slotprice", "useragent", "region"} :
         /\ callTransformed' = feat_trans(name, callContent)
         /\ called' = name
    /\ fpc' = "returned"
    /\ UNCHANGED <<callContent, requested, cpu_count, callTags, cores>>
    /\ UNCHANGED nonCallVars

NormalizeCoresCall ==
    /\ fpc = "call"
    /\ cores' = normalize_cores(requested)
    /\ called' = "normalize_cores"
    /\ fpc' = "returned"
    /\ UNCHANGED <<callContent, requested, cpu_count, callTags, callTransformed>>
    /\ UNCHANGED nonCallVars

EnsureUncompressedWorkers ==
    /\ fpc = "call"
    /\ cores' = WorkersOrDefault(requested)
    /\ called' = "ensure_uncompressed"
    /\ fpc' = "returned"
    /\ UNCHANGED <<callContent, requested, cpu_count, callTags, callTransformed>>
    /\ UNCHANGED nonCallVars

DecompressorInit ==
    /\ fpc = "call"
    /\ cores' = WorkersOrDefault(requested)
    /\ called' = "Decompressor"
    /\ fpc' = "returned"
    /\ UNCHANGED <<callContent, requested, cpu_count, callTags, callTransformed>>
    /\ UNCHANGED nonCallVars

FeatInit ==
    /\ callContent \in ContentPool
    /\ requested = <<>> /\ cpu_count = <<>>
    /\ fpc = "call" /\ called = "" /\ callTags = <<>> /\ callTransformed = "" /\ cores = 0

WorkersInit ==
    /\ callContent = "<none>"
    /\ requested \in NullableInts(0 - 1, MaxRequested)
    /\ cpu_count \in NullableInts(1, MaxCpus)
    /\ fpc = "call" /\ called = "" /\ callTags = <<>> /\ callTransformed = "" /\ cores = 0

FeatNext == GetTagsCall \/ FeatTransCall

WorkersNext == NormalizeCoresCall \/ EnsureUncompressedWorkers \/ DecompressorInit

(***************************************************************************)
(* make_ipinyou_data/utils/decompress.py: Decompressor._process_files.     *)
(* Each pending pair has one decompress_with_limit coroutine; no           *)
(* decompression fails.                                                    *)
(***************************************************************************)
MaxPending == 4
MaxWorkers == 3

\* the semaphore admits every coroutine, whatever its value
CanAcquireAlways == TRUE

\* async with semaphore: the coroutine enters when the value is positive
CanAcquire == semaphore > 0

\* semaphore = asyncio.Semaphore(self.max_workers); the coroutines are made
\* and handed to asyncio.gather
ProcessFiles ==
    /\ apc = "start"
    /\ semaphore' = max_workers
    /\ apc' = "gather"
    /\ UNCHANGED <<max_workers, coros>>
    /\ UNCHANGED nonAsyncVars

\* a coroutine acquires the semaphore and hands _decompress_sync to the
\* executor
SemAcquire ==
    /\ apc = "gather"
    /\ CanAcquire
    /\ \E i \in 1..Len(coros) :
         /\ coros[i] = "created"
         /\ coros' = [coros EXCEPT ![i] = "decompressing"]
    /\ semaphore' = semaphore - 1
    /\ UNCHANGED <<max_workers, apc>>
    /\ UNCHANGED nonAsyncVars

\* _decompress_one returns and the coroutine leaves "async with": release
SemRelease ==
    /\ apc = "gather"
    /\ \E i \in 1..Len(coros) :
         /\ coros[i] = "decompressing"
         /\ coros' = [coros EXCEPT ![i] = "done"]
    /\ semaphore' = semaphore + 1
    /\ UNCHANGED <<max_workers, apc>>
    /\ UNCHANGED nonAsyncVars

\* await asyncio.gather(*tasks) returns once every coroutine has returned
Gather ==
    /\ apc = "gather"
    /\ \A i \in 1..Len(coros) : coros[i] = "done"
    /\ apc' = "returned"
    /\ UNCHANGED <<max_workers, semaphore, coros>>
    /\ UNCHANGED nonAsyncVars

AsyncInit ==
    /\ max_workers \in 1..MaxWorkers
    /\ semaphore = 0
    /\ coros \in { [i \in 1..n |-> "created"] : n \in 0..MaxPending }
    /\ apc = "start"

AsyncNext ==
    \/ ProcessFiles
    \/ SemAcquire
    \/ SemRelease
    \/ Gather

(***************************************************************************)
(* Specifications: one program each, the others at rest                    *)
(***************************************************************************)
YzxIdle ==
    /\ trainFile = <<>> /\ testFile = NoFile /\ pc = "idle" /\ run = 1 /\ ln = 0
    /\ slot = 0 /\ namecol = EmptyDict /\ featindex = EmptyDict /\ maxindex = 0
    /\ prevIndex = EmptyDict /\ indexOut = NoIndex /\ trainOut = NoOutput
    /\ testOut = NoOutput

JoinIdle ==
    /\ schemaText = "" /\ clickFiles = <<>> /\ jpc = "idle" /\ schema = <<>>
    /\ cfile = 0 /\ cline = 0 /\ bmap = EmptyDict /\ nread = 0 /\ stdout = <<>>

DuckIdle ==
    /\ impLogs = [r \in RoundSet |-> <<>>] /\ clkLogs = [r \in RoundSet |-> <<>>]
    /\ dpc = "idle" /\ nrounds = 0
    /\ impTables = [r \in RoundSet |-> <<>>] /\ clkTables = [r \in RoundSet |-> <<>>]
    /\ train_impressions = <<>> /\ train_clicks = <<>> /\ train_processed = <<>>
    /\ train_columns = <<>>

SplitIdle ==
    /\ splitInput = NoFile /\ advertiser_index = 0 /\ spc = "idle" /\ sln = 0
    /\ header = "" /\ advertiser_files = EmptyDict /\ advertiser_dirs = {}
    /\ open_handles = {}

UnzipIdle ==
    /\ files = <<>> /\ cache = EmptyDict /\ force = FALSE /\ worker_count = 1
    /\ zpc = "idle" /\ pending = <<>> /\ prepared = <<>> /\ task = <<>>

CallIdle ==
    /\ callContent = "<none>" /\ requested = <<>> /\ cpu_count = <<>> /\ fpc = "idle"
    /\ called = "" /\ callTags = <<>> /\ callTransformed = "" /\ cores = 0

AsyncIdle == max_workers = 1 /\ semaphore = 0 /\ coros = <<>> /\ apc = "idle"

\* mkyzx.py
Init == YzxInit /\ JoinIdle /\ DuckIdle /\ SplitIdle /\ UnzipIdle /\ CallIdle
    /\ AsyncIdle
Next == YzxNext
Spec == Init /\ [][Next]_vars

\* mkyzx.py, build_feature_index run twice
SpecTwice == Init /\ [][TwiceNext]_vars

\* mktest.py
InitTest == TestInit /\ YzxIdle /\ DuckIdle /\ SplitIdle /\ UnzipIdle /\ CallIdle
    /\ AsyncIdle
SpecTest == InitTest /\ [][TestNext]_vars

\* splitadvertisers.py
InitSplit == SplitInit /\ YzxIdle /\ JoinIdle /\ DuckIdle /\ UnzipIdle /\ CallIdle
    /\ AsyncIdle
SpecSplit == InitSplit /\ [][SplitNext]_vars

\* splitadvertisers.py with I/O failures
SpecSplitIO == InitSplit /\ [][SplitIONext]_vars

\* duckdb_pipeline.py: the decompression before a round is registered
InitUnzip == UnzipInit /\ YzxIdle /\ JoinIdle /\ DuckIdle /\ SplitIdle /\ CallIdle
    /\ AsyncIdle
SpecUnzip == InitUnzip /\ [][UnzipNext]_vars

\* mkyzx.py with I/O failures
SpecIO == Init /\ [][IONext]_vars

\* mkdata.py
InitJoin == JoinInit /\ YzxIdle /\ DuckIdle /\ SplitIdle /\ UnzipIdle /\ CallIdle
    /\ AsyncIdle
SpecJoin == InitJoin /\ [][JoinNext]_vars

\* duckdb_pipeline.py
InitDuck == DuckInit /\ YzxIdle /\ JoinIdle /\ SplitIdle /\ UnzipIdle /\ CallIdle
    /\ AsyncIdle
SpecDuck == InitDuck /\ [][DuckNext]_vars

\* mkyzx.py: get_tags and feat_trans
InitFeat == FeatInit /\ YzxIdle /\ JoinIdle /\ DuckIdle /\ SplitIdle /\ UnzipIdle
    /\ AsyncIdle
SpecFeat == InitFeat /\ [][FeatNext]_vars

\* the worker counts
InitWorkers == WorkersInit /\ YzxIdle /\ JoinIdle /\ DuckIdle /\ SplitIdle /\ UnzipIdle
    /\ AsyncIdle
SpecWorkers == InitWorkers /\ [][WorkersNext]_vars

\* decompress.py: _process_files
InitAsync ==
    AsyncInit /\ YzxIdle /\ JoinIdle /\ DuckIdle /\ SplitIdle /\ UnzipIdle /\ CallIdle
SpecAsync == InitAsync /\ [][AsyncNext]_vars

\* _process_files under the scheduling of the event loop and of the
\* executor: a coroutine that can run is run, a decompression that runs ends
SpecAsyncFair ==
    /\ InitAsync
    /\ [][AsyncNext]_vars
    /\ WF_vars(ProcessFiles)
    /\ WF_vars(SemAcquire)
    /\ WF_vars(SemRelease)
    /\ WF_vars(Gather)

(***************************************************************************)
(* Properties                                                              *)
(***************************************************************************)
\* the input lines the encoding pass over `which` has taken so far
LinesTaken(which) ==
    IF OutputOf(which) = NoOutput THEN 0
    ELSE IF pc = "enc_" \o which THEN ln
    ELSE Len(InputOf(which))

\* the rows among them, header excluded, that have at least 24 fields
LongRows(which) ==
    LET n == LinesTaken(which)
        input == InputOf(which)
    IN  SelectSeq([i \in 1..(IF n > 0 THEN n - 1 ELSE 0) |-> Fields(input[i + 1])],
                  LAMBDA s : Len(s) >= MinFields)

InPass == pc \in {"read", "header", "row", "built"}

Injective(fi) == \A a, b \in DOMAIN fi : a # b => fi[a] # fi[b]

\* C1: during the pass of build_feature_index and in its result, "truncate"
\* has id 0 and no two keys share an id; and a key that has an id keeps it
\* in every step of the pass.
C1_IdsStable ==
    /\ [](InPass => /\ "truncate" \in DOMAIN featindex
                    /\ featindex["truncate"] = 0
                    /\ Injective(featindex))
    /\ [][InPass => \A k \in DOMAIN featindex :
                        k \in DOMAIN featindex' /\ featindex'[k] = featindex[k]]_vars

\* a pass that has returned with ids given to values of two data rows
C1_Witness ==
    /\ pc = "built"
    /\ Len(trainFile) = 3
    /\ \E k \in DOMAIN featindex : featindex[k] > Len(Fields(trainFile[1])) + 1

InIndexFile == pc \in {"open_train", "enc_train", "open_test", "enc_test"}

\* C2: no step of index_file changes the FeatureIndex or the column-position
\* map: from the return of build_feature_index on, both stay as returned.
C2_IndexFrozen ==
    [][InIndexFile => (featindex' = featindex /\ namecol' = namecol)]_vars

UnseenIn(s) ==
    \E k \in 1..Len(Slots) :
        \E j \in 1..Len(BuildSlotKeys(k, s, namecol)) :
            BuildSlotKeys(k, s, namecol)[j] \notin DOMAIN featindex

\* both files encoded, the test file with an encoded row that has a value
\* never seen in training
C2_Witness ==
    /\ pc = "done"
    /\ Len(testOut) > 0
    /\ \E i \in 2..Len(testFile) :
          Len(Fields(testFile[i])) >= MinFields /\ UnseenIn(Fields(testFile[i]))

\* whether the written line has, for the k-th feature (a categorical or a
\* transformed column), the id of the value's own key or else of the
\* column's other key
EmitsColumn(line, k, s) ==
    LET f == Slots[k]
        col == namecol[f]
    IN  /\ col < Len(s)
        /\ LET content == IF IsF1S(k) THEN At(s, col) ELSE feat_trans(f, At(s, col))
               want == IF FeatKey(col, content) \in DOMAIN featindex
                       THEN FeatKey(col, content)
                       ELSE OtherKey(col)
           IN  /\ want \in DOMAIN featindex
               /\ \E j \in 1..Len(line.pairs) :
                     line.pairs[j].f = f /\ line.pairs[j].id = featindex[want]

\* C3: every written line has an id for every categorical and transformed
\* column of the training header that the row has a field for: the id of
\* the value's key or else of the column's other key.
C3_NeverDropped ==
    \A which \in {"train", "test"} :
        OutputOf(which) # NoOutput =>
            \A i \in 1..Len(OutputOf(which)) :
                /\ i <= Len(LongRows(which))
                /\ \A k \in 1..(Len(F1S) + Len(F1SP)) :
                      (/\ Slots[k] \in DOMAIN namecol
                       /\ namecol[Slots[k]] < Len(LongRows(which)[i]))
                          => EmitsColumn(OutputOf(which)[i], k, LongRows(which)[i])

\* C4: when the header row has been processed and no data row yet, every
\* categorical column of the header has its other key.
C4_OtherRegistered ==
    (pc = "read" /\ ln = 1) =>
        \A i \in 1..Len(F1S) :
            F1S[i] \in DOMAIN namecol => OtherKey(namecol[F1S[i]]) \in DOMAIN featindex

\* the keys of the lines of all click files
AllClickKeys ==
    LET ci == IndexOf(schema, "creative")
    IN  { ClickKey(Fields(clickFiles[f][l]), ci) :
            <<f, l>> \in { <<f, l>> \in (1..Len(clickFiles)) \X (1..MaxClickLines) :
                              /\ l <= Len(clickFiles[f])
                              /\ Len(Fields(clickFiles[f][l])) > ci } }

\* the impression fields of a written row: what follows click, weekday, hour
ImpressionOf(outline) == LET f == Fields(outline) IN SubSeq(f, 4, Len(f))

\* C5: every row process_data has written has click "1" if the row's key is
\* the key of a line of some click file and "0" if it is not.
C5_ClickIffKey ==
    \A i \in 2..Len(stdout) :
        Fields(stdout[i])[1] =
            (IF ClickKey(ImpressionOf(stdout[i]), IndexOf(schema, "creative")) \in AllClickKeys
             THEN "1" ELSE "0")

\* a row written with click "1" whose key is in both of two click files
C5_Witness ==
    /\ jpc = "done"
    /\ Len(stdout) = 2
    /\ Fields(stdout[2])[1] = "1"
    /\ Len(clickFiles) = 2
    /\ \A f \in 1..2 :
          /\ Len(clickFiles[f]) = 1
          /\ Len(Fields(clickFiles[f][1])) > IndexOf(schema, "creative")
          /\ ClickKey(Fields(clickFiles[f][1]), IndexOf(schema, "creative"))
                = ClickKey(ImpressionOf(stdout[2]), IndexOf(schema, "creative"))

\* the keys of the click logs of one round
RoundClickKeys(r) ==
    { BidCreativeKey(ReadCsvRow(clkLogs[r][i], DuckColumns)) : i \in 1..Len(clkLogs[r]) }

\* C6: a processed training row has click '1' if and only if the key of its
\* impression is a key of the click logs of the impression's own round.
C6_SameRoundJoin ==
    dpc = "done" =>
        \A i \in 1..Len(train_processed) :
            LET p == train_processed[i]
            IN  (p.click = "1") <=>
                    (train_impressions[p.src].bid_creative_key \in RoundClickKeys(p.round))

\* C7: a row is written with click "1" only if some click line has the
\* row's own bidid and the row's own creative.
C7_KeyInjective ==
    \A i \in 2..Len(stdout) :
        LET ci == IndexOf(schema, "creative")
            arr == ImpressionOf(stdout[i])
        IN  Fields(stdout[i])[1] = "1" =>
                \E f \in 1..Len(clickFiles) : \E l \in 1..Len(clickFiles[f]) :
                    LET a == Fields(clickFiles[f][l])
                    IN  /\ Len(a) > ci
                        /\ At(a, 0) = At(arr, 0)
                        /\ At(a, ci) = At(arr, ci)

Rank(f) ==
    IF f = "truncate" THEN 0
    ELSE CHOOSE k \in 1..Len(Slots) : Slots[k] = f

\* the ids the usertag field of a row gives, tag by tag
TagIds(s) ==
    LET col == namecol["usertag"]
        tags == get_tags(At(s, col))
    IN  [i \in 1..Len(tags) |->
            IF FeatKey(col, tags[i]) \in DOMAIN featindex
            THEN featindex[FeatKey(col, tags[i])]
            ELSE featindex[OtherKey(col)]]

ColumnOrdered(line, s) ==
    LET ps == line.pairs
        tagged == SelectSeq(ps, LAMBDA p : p.f = "usertag")
    IN  /\ Len(ps) >= 1
        /\ ps[1] = [f |-> "truncate", id |-> featindex["truncate"]]
        /\ \A j \in 1..(Len(ps) - 1) :
              \/ Rank(ps[j].f) < Rank(ps[j + 1].f)
              \/ ps[j].f = "usertag" /\ ps[j + 1].f = "usertag"
        /\ Len(tagged) > 0 =>
              /\ "usertag" \in DOMAIN namecol
              /\ namecol["usertag"] < Len(s)
              /\ [j \in 1..Len(tagged) |-> tagged[j].id] = TagIds(s)

\* C9: on every written line the pairs are in the column order truncate,
\* the F1S columns, useragent, slotprice, then the user tags in field order.
C9_ColumnOrder ==
    \A which \in {"train", "test"} :
        OutputOf(which) # NoOutput =>
            \A i \in 1..Len(OutputOf(which)) :
                /\ i <= Len(LongRows(which))
                /\ ColumnOrdered(OutputOf(which)[i], LongRows(which)[i])

\* a written line whose ids are not ascending and that has two user tags
C9_Witness ==
    /\ pc = "done"
    /\ \E i \in 1..Len(trainOut) :
          LET ps == trainOut[i].pairs
          IN  /\ \E j \in 1..(Len(ps) - 1) : ps[j].id > ps[j + 1].id
              /\ Len(SelectSeq(ps, LAMBDA p : p.f = "usertag")) = 2

\* C10: the written lines are, in input order, one for each input row after
\* the header that has at least 24 fields, each with the row's field 0 as
\* label and field 23 as weight.
C10_OneLinePerLongRow ==
    \A which \in {"train", "test"} :
        OutputOf(which) # NoOutput =>
            /\ Len(OutputOf(which)) = Len(LongRows(which))
            /\ \A i \in 1..Len(OutputOf(which)) :
                  /\ OutputOf(which)[i].label = At(LongRows(which)[i], 0)
                  /\ OutputOf(which)[i].weight = At(LongRows(which)[i], 23)

\* a test file with a row of exactly 24 fields and a row of 23 fields, encoded
C10_Witness ==
    /\ pc = "done"
    /\ Len(testFile) = 3
    /\ Len(testOut) = 1
    /\ \E i, j \in 2..3 :
          /\ Len(Fields(testFile[i])) = MinFields
          /\ Len(Fields(testFile[j])) = MinFields - 1

\* C11: the processed table has the columns click, weekday, hour and then
\* directly the schema columns in schema order: the schema column i is the
\* column i + 3 of the table.
C11_HeaderLayout ==
    dpc = "done" =>
        /\ Len(train_columns) >= 3 + Len(DuckColumns)
        /\ SubSeq(train_columns, 1, 3) = <<"click", "weekday", "hour">>
        /\ \A i \in 1..Len(DuckColumns) : train_columns[i + 3] = DuckColumns[i]

\* C12: a run of main that has aborted has left none of the three artifacts.
C12_AllOrNothing ==
    pc = "failed" =>
        /\ indexOut = NoIndex
        /\ trainOut = NoOutput
        /\ testOut = NoOutput

\* C13: when index_file has failed after it opened its output, the output
\* file of that call does not exist.
C13_PartialRemoved ==
    \A which \in {"train", "test"} :
        pc = "io_error_" \o which => OutputOf(which) = NoOutput

\* C14: every row of the processed table comes from an impression whose
\* timestamp starts with a valid YYYYMMDD date, and has that date's weekday.
C14_NoDefaultWeekday ==
    dpc = "done" =>
        \A i \in 1..Len(train_processed) :
            LET p == train_processed[i]
                ts == train_impressions[p.src].cols["timestamp"]
            IN  /\ ~IsNull(ts)
                /\ ParseTimestamp(ts[1]).ok
                /\ p.weekday = ToString(ParseTimestamp(ts[1]).weekday)

\* C15: with a schema that lacks creative or timestamp, no line of a click
\* file has been read, no click file has been finished and nothing has been
\* written.
C15_SchemaErrorFirst ==
    (jpc # "start" /\ (IndexOf(schema, "timestamp") < 0 \/ IndexOf(schema, "creative") < 0))
        => /\ cfile = 0
           /\ cline = 0
           /\ bmap = EmptyDict
           /\ stdout = <<>>

\* C16: every row mktest has written whose line has the nclick column of
\* the schema has click "0" if and only if the trimmed value of that column
\* is "0".
C16_TestLabel ==
    \A i \in 2..Len(stdout) :
        LET arr == ImpressionOf(stdout[i])
            ni == IndexOf(schema, "nclick")
        IN  ni < Len(arr) =>
                (Fields(stdout[i])[1] = "0" <=> Strip(At(arr, ni)) = "0")

\* C17: every output file of split_file_by_advertiser starts with the
\* header line of the input, and every row in the file of an advertiser has
\* that advertiser in its advertiser column.
C17_SplitByAdvertiser ==
    \A a \in DOMAIN advertiser_files :
        LET f == advertiser_files[a]
        IN  /\ Len(f) >= 2
            /\ f[1] = splitInput[1]
            /\ \A j \in 2..Len(f) :
                  /\ advertiser_index < Len(Fields(f[j]))
                  /\ At(Fields(f[j]), advertiser_index) = a

\* a finished split with the files of two advertisers
C17_Witness ==
    /\ spc = "done"
    /\ DOMAIN advertiser_files = {"1458", "3386"}
    /\ advertiser_index = 1

\* C18: with a header that is empty, or an advertiser index that is negative
\* or not less than the number of header columns, the split does not
\* complete and has created no directory and no output file.
C18_FailFast ==
    LET bad == \/ advertiser_index < 0
               \/ sln >= 1 /\ Strip(header) = ""
               \/ sln >= 1 /\ advertiser_index >= Len(Fields(header))
    IN  (spc # "idle" /\ bad) =>
            /\ spc # "done"
            /\ DOMAIN advertiser_files = {}
            /\ advertiser_dirs = {}

\* C19: once ensure_uncompressed has returned, and when the returned files
\* are registered, every decompression task it started has finished and
\* every file it returned from the cache is complete.
C19_AwaitedBeforeJoin ==
    zpc \in {"returned", "registered"} =>
        /\ AllDone
        /\ \A i \in 1..Len(pending) : cache[PathStr(pending[i].dest)] = "complete"

\* the files are registered after two tasks ran on one worker
C19_Witness ==
    /\ zpc = "registered"
    /\ Len(pending) = 2
    /\ worker_count = 1

\* C20: no two decompression tasks that run at the same time write to the
\* same destination.
C20_DisjointDestinations ==
    \A i, j \in Running : i # j => pending[i].dest # pending[j].dest

\* C21: every row process_data has written carries, as its hour, the two
\* characters at offsets 8 and 9 of the row's timestamp when the timestamp has
\* ten characters or more, and "00" when it has eight or nine.
C21_HourFromTimestamp ==
    \A i \in 2..Len(stdout) :
        LET ts == At(ImpressionOf(stdout[i]), IndexOf(schema, "timestamp"))
        IN  Fields(stdout[i])[3] = (IF Len(ts) >= 10 THEN Slice(ts, 8, 10) ELSE "00")

\* the number of commas of a text, plus one
RECURSIVE Parts(_)
Parts(text) ==
    IF text = "" THEN 1
    ELSE (IF Head(text) = "," THEN 1 ELSE 0) + Parts(Tail(text))

\* C22: get_tags returns the single tag "null" for a value that is empty or
\* holds only whitespace, and otherwise one tag per comma-separated part of
\* the value.
C22_NullForBlank ==
    called = "get_tags" =>
        IF Strip(callContent) = ""
        THEN callTags = <<"null">>
        ELSE Len(callTags) = Parts(callContent)

\* the bucket the integer n belongs to
BucketOf(n) ==
    IF n <= 0 THEN "0"
    ELSE IF n <= 10 THEN "1-10"
    ELSE IF n <= 50 THEN "11-50"
    ELSE IF n <= 100 THEN "51-100"
    ELSE "101+"

\* C23: feat_trans gives a slot price that is the integer n the bucket of n:
\* "0" at or below zero, "1-10", "11-50", "51-100" with 10, 50 and 100 in
\* the lower bucket, "101+" above; and gives "0" to a value that is no number.
C23_SlotPriceBuckets ==
    called = "slotprice" =>
        /\ \A n \in PriceRange :
              callContent = IntText(n) => callTransformed = BucketOf(n)
        /\ callContent \in {"", " ", "abc", "n/a", "null"} => callTransformed = "0"

\* feat_trans has been given the slot price 50 and has answered "11-50"
C23_Witness ==
    /\ fpc = "returned"
    /\ called = "slotprice"
    /\ callContent = "50"
    /\ callTransformed = "11-50"

\* C25: the worker count computed for a requested count, none included, is
\* at least 1 and at most max(1, cpu_count - 1).
C25_WorkerBounds ==
    fpc = "returned" =>
        /\ cores >= 1
        /\ cores <= Max(1, CpuCountOr(1) - 1)

\* C24: once split_file_by_advertiser has returned or raised, whichever way,
\* no output handle it opened is still open.
C24_HandlesClosed ==
    spc \in {"done", "failed", "io_error", "create_error"} => open_handles = {}

\* C26: at every point of the pass of build_feature_index the ids given are
\* exactly 0 .. N-1, N the number of keys, and the next id to give is N.
C26_DenseIds ==
    InPass =>
        LET N == Cardinality(DOMAIN featindex)
        IN  /\ { featindex[k] : k \in DOMAIN featindex } = 0..(N - 1)
            /\ maxindex = N

\* the pass is at a data row and ids have been given to values of a row
C26_Witness ==
    /\ pc = "row"
    /\ ln = 3
    /\ maxindex > Len(Fields(trainFile[1]))

\* C27: the processed training table has exactly one row per impression of
\* the training impressions table.
C27_OneRowPerImpression ==
    dpc = "done" =>
        /\ Len(train_processed) = Len(train_impressions)
        /\ \A i \in 1..Len(train_processed) : train_processed[i].src = i

RECURSIVE OwnKeysFrom(_, _)
\* the keys of the values of a row, in the order of the columns visited
OwnKeysFrom(k, s) ==
    IF k > Len(Slots) THEN <<>>
    ELSE BuildSlotKeys(k, s, namecol) \o OwnKeysFrom(k + 1, s)

\* C28: every line written for the training file carries, after truncate,
\* one id for each categorical, transformed and user tag value of its row,
\* and that id is the id of the value's own key.
C28_TrainOwnKeys ==
    trainOut # NoOutput =>
        \A i \in 1..Len(trainOut) :
            LET keys == OwnKeysFrom(1, LongRows("train")[i])
                ps == trainOut[i].pairs
            IN  /\ \A j \in 1..Len(keys) : keys[j] \in DOMAIN featindex
                /\ Len(ps) = Len(keys) + 1
                /\ \A j \in 1..Len(keys) : ps[j + 1].id = featindex[keys[j]]

\* the training file is encoded: two lines, the second of a row whose values
\* were all seen in the first
C28_Witness ==
    /\ pc = "done"
    /\ Len(trainOut) = 2
    /\ Len(trainOut[1].pairs) > 3
    /\ trainOut[2].pairs = trainOut[1].pairs

\* the rows of the input, header excluded
SplitRows == SubSeq(splitInput, 2, Len(splitInput))

\* a row the split gives to the file of advertiser a
GoesTo(line, a) ==
    /\ advertiser_index < Len(Fields(line))
    /\ At(Fields(line), advertiser_index) = a

\* C29: after a completed split the file of each advertiser holds, after the
\* header, exactly the input rows with that advertiser, in input order and
\* once each; the only rows in no file are the rows with no advertiser field
\* or an empty one.
C29_Partition ==
    spc = "done" =>
        LET advs == { At(Fields(SplitRows[i]), advertiser_index) :
                        i \in { i \in 1..Len(SplitRows) :
                                  /\ advertiser_index < Len(Fields(SplitRows[i]))
                                  /\ At(Fields(SplitRows[i]), advertiser_index) # "" } }
        IN  /\ DOMAIN advertiser_files = advs
            /\ \A a \in advs :
                  Tail(advertiser_files[a]) = SelectSeq(SplitRows, LAMBDA l : GoesTo(l, a))

\* a completed split that gave two different rows to one advertiser
C29_Witness ==
    /\ spc = "done"
    /\ "1458" \in DOMAIN advertiser_files
    /\ Tail(advertiser_files["1458"]) = <<"1\t1458\n", "0\t1458\n">>

\* the coroutines whose decompression is in progress
InProgress == { i \in 1..Len(coros) : coros[i] = "decompressing" }

\* C30: in _process_files at most max_workers decompressions are in progress
\* at any moment, and, no decompression failing, every pending pair is
\* decompressed in the end and the gather returns.
C30_BoundedAndLive ==
    /\ [](Cardinality(InProgress) <= max_workers)
    /\ <>(apc = "returned" /\ \A i \in 1..Len(coros) : coros[i] = "done")

\* max_workers decompressions are in progress and a coroutine waits for the
\* semaphore
C30_Witness ==
    /\ apc = "gather"
    /\ max_workers = 2
    /\ Cardinality(InProgress) = 2
    /\ semaphore = 0
    /\ \E i \in 1..Len(coros) : coros[i] = "created"
====
